---- MODULE Spec2Model ----
(***************************************************************************)
(* A model of the DNS programs of the repository:                          *)
(*   - the iterative DNS server  src/hw2_dns_server/hw2_dns_server.py      *)
(*     (DNSServer: run_server, _handle_request, _iterative_resolve,        *)
(*     _find_next_server_name and the wire helpers), specification Spec;   *)
(*   - the caching resolver      src/hw2_dns_server.py                     *)
(*     (DNSCache, DNSResolver), specifications SpecCache (the cache called *)
(*     directly) and SpecResolver (resolve over the cache).                *)
(* DNS messages are sequences of bytes (naturals 0..255); Python's 0-based *)
(* offsets are kept, Byte/Slice translate them to TLA+'s 1-based ones.     *)
(***************************************************************************)
EXTENDS Integers, Sequences, FiniteSets, TLC

\* ------------------------------------------------------------------ bounds
\* Datagrams the server loop receives in one run.
MaxRequests == 2
\* Depth of _iterative_resolve's self-call at which the interpreter raises
\* RecursionError (CPython's default limit is 1000 frames; scaled down).
RecursionLimit == 4

\* ------------------------------------------------------- bytes and slices
Min(a, b) == IF a < b THEN a ELSE b

\* data[i] for 0 <= i < len(data).
Byte(data, i) == data[i + 1]

\* data[a:b] (Python slice, 0 <= a): clipped to the buffer, never raises.
Slice(data, a, b) ==
    IF a >= Min(b, Len(data)) THEN << >>
    ELSE SubSeq(data, a + 1, Min(b, Len(data)))

\* struct.pack('!H', v)
PackH(v) == << v \div 256, v % 256 >>

\* struct.unpack('!H', s)[0] for a 2-byte s.
UnpackH(s) == s[1] * 256 + s[2]

\* struct.pack('!6H', ...)
Pack6H(id, flags, qd, an, ns, ar) ==
    PackH(id) \o PackH(flags) \o PackH(qd) \o PackH(an) \o PackH(ns) \o PackH(ar)

\* struct.unpack('!6H', data[:12]): six 16-bit words, header[k] for k in 0..5.
\* Defined for len(data) >= 12; on a shorter buffer the source raises
\* struct.error (HeaderOk is the guard).
HeaderOk(data) == Len(Slice(data, 0, 12)) = 12
Header(data) == [k \in 0..5 |-> UnpackH(Slice(data, 2 * k, 2 * k + 2))]

\* Results of helpers that may raise: kind "ok" with a value, or "raise".
NoIp == << >>

\* ---------------------------------------------------- Delegation Navigator
\* `while data[offset] != 0: offset += 1`: the offset of the first zero byte at
\* or after offset, or -1 when the scan runs off the buffer (IndexError).
RECURSIVE SkipToZero(_, _)
SkipToZero(data, offset) ==
    IF offset >= Len(data) THEN -1
    ELSE IF Byte(data, offset) = 0 THEN offset
    ELSE SkipToZero(data, offset + 1)

\* The loop over the questions (lines 80-83): the offset after `questions`
\* question entries, or -1 on IndexError.
RECURSIVE SkipQuestions(_, _, _)
SkipQuestions(data, offset, questions) ==
    IF questions = 0 THEN offset
    ELSE LET z == SkipToZero(data, offset)
         IN  IF z = -1 THEN -1
             ELSE SkipQuestions(data, z + 5, questions - 1)

\* The loop over the additional records (lines 85-98).
RECURSIVE ScanRecords(_, _, _)
ScanRecords(data, offset, count) ==
    IF count = 0 THEN [kind |-> "none", ip |-> NoIp, exc |-> "none"]
    ELSE
      LET z    == SkipToZero(data, offset)
          off1 == IF Slice(data, offset, offset + 2) = << 192, 12 >>
                  THEN offset + 2
                  ELSE IF z = -1 THEN -1 ELSE z + 1
          tbytes == Slice(data, off1, off1 + 2)
          off2 == off1 + 8
          lbytes == Slice(data, off2, off2 + 2)
          off3 == off2 + 2
          ipb  == Slice(data, off3, off3 + 4)
      IN  IF off1 = -1
            THEN [kind |-> "raise", ip |-> NoIp, exc |-> "IndexError"]
          ELSE IF Len(tbytes) # 2 \/ Len(lbytes) # 2
            THEN [kind |-> "raise", ip |-> NoIp, exc |-> "struct.error"]
          ELSE IF UnpackH(tbytes) = 1
            THEN IF Len(ipb) = 4
                 THEN [kind |-> "addr", ip |-> ipb, exc |-> "none"]
                 ELSE [kind |-> "raise", ip |-> NoIp, exc |-> "OSError"]
          ELSE ScanRecords(data, off3 + UnpackH(lbytes), count - 1)

\* DNSServer._find_next_server_name(data), for len(data) >= 12.
FindNextServerName(data) ==
    LET questions == UnpackH(Slice(data, 4, 6))
        offset    == SkipQuestions(data, 12, questions)
        additional_count == UnpackH(Slice(data, 10, 12))
    IN  IF offset = -1
        THEN [kind |-> "raise", ip |-> NoIp, exc |-> "IndexError"]
        ELSE ScanRecords(data, offset, additional_count)

\* ------------------------------------------------------------ wire helpers
\* str.encode() (UTF-8) of a text given as its code points, all below 0x800
\* here: one byte below 0x80, two bytes from there on.
RECURSIVE Utf8Encode(_)
Utf8Encode(text) ==
    IF Len(text) = 0 THEN << >>
    ELSE (IF Head(text) < 128 THEN << Head(text) >>
          ELSE << 192 + (Head(text) \div 64), 128 + (Head(text) % 64) >>)
         \o Utf8Encode(Tail(text))

\* bytes.decode() (UTF-8) of a label: its code points, or << -1 >> where
\* UnicodeDecodeError is raised.  A byte below 0x80 is its own character; a
\* byte 0xC2..0xDF starts a two-byte character and must be followed by a byte
\* 0x80..0xBF; a byte 0x80..0xC1 or 0xF5..0xFF starts none.  The messages of
\* this model hold no byte 0xE0..0xF4 (longer characters).
RECURSIVE Utf8Decode(_)
Utf8Decode(s) ==
    IF Len(s) = 0 THEN << >>
    ELSE IF s[1] < 128
    THEN LET rest == Utf8Decode(Tail(s))
         IN  IF rest = << -1 >> THEN rest ELSE << s[1] >> \o rest
    ELSE IF s[1] \in 194..223 /\ Len(s) >= 2 /\ s[2] \in 128..191
    THEN LET rest == Utf8Decode(Tail(Tail(s)))
         IN  IF rest = << -1 >> THEN rest
             ELSE << (s[1] - 192) * 64 + (s[2] - 128) >> \o rest
    ELSE << -1 >>
Utf8Fails(s) == Utf8Decode(s) = << -1 >>

\* The loop of DNSServer._decode_domain_name: the labels of data from offset i.
RECURSIVE DecodeParts(_, _)
DecodeParts(data, i) ==
    IF i >= Len(data) THEN << >>
    ELSE LET length == Byte(data, i)
         IN  IF length = 0 THEN << >>
             ELSE << Slice(data, i + 1, i + 1 + length) >>
                  \o DecodeParts(data, i + length + 1)

\* '.'.join(parts), the characters as their codes ('.' is 46).
RECURSIVE Join(_)
Join(parts) ==
    IF Len(parts) = 0 THEN << >>
    ELSE IF Len(parts) = 1 THEN parts[1]
    ELSE parts[1] \o << 46 >> \o Join(Tail(parts))

\* DNSServer._decode_domain_name(data)
DecodeDomainName(data) ==
    LET parts == DecodeParts(data, 0)
    IN  IF \E k \in 1..Len(parts) : Utf8Fails(parts[k])
        THEN [kind |-> "raise", value |-> << >>, exc |-> "UnicodeDecodeError"]
        ELSE [kind |-> "ok",
              value |-> Join([k \in 1..Len(parts) |-> Utf8Decode(parts[k])]),
              exc |-> "none"]

\* domain.split('.'): the parts between the dots, empty ones included.
RECURSIVE SplitFrom(_, _, _)
SplitFrom(domain, i, cur) ==
    IF i > Len(domain) THEN << cur >>
    ELSE IF domain[i] = 46 THEN << cur >> \o SplitFrom(domain, i + 1, << >>)
    ELSE SplitFrom(domain, i + 1, Append(cur, domain[i]))
Split(domain) == SplitFrom(domain, 1, << >>)

\* `needle in domain` on strings.
Contains(domain, needle) ==
    \E i \in 0..(Len(domain) - Len(needle)) :
        Slice(domain, i, i + Len(needle)) = needle

\* "multiply"
MultiplyWord == << 109, 117, 108, 116, 105, 112, 108, 121 >>

\* part.isdigit(), and whether int(part) accepts the part.  The characters are
\* the ASCII digits and, standing for the digits that are no decimal digits,
\* SUPERSCRIPT TWO (code 178): '\u00b2'.isdigit() is True and int('\u00b2') raises
\* ValueError.
IsDigit(part) ==
    Len(part) > 0 /\ \A i \in 1..Len(part) : part[i] \in (48..57) \cup { 178 }
IsDecimal(part) == Len(part) > 0 /\ \A i \in 1..Len(part) : part[i] \in 48..57
\* Whether `[int(part) for part in parts if part.isdigit()]` raises ValueError.
IntRaises(parts) ==
    \E k \in 1..Len(parts) : IsDigit(parts[k]) /\ ~IsDecimal(parts[k])
\* int(part) for a part int accepts.
RECURSIVE IntOf(_)
IntOf(part) ==
    IF Len(part) = 0 THEN 0
    ELSE 10 * IntOf(SubSeq(part, 1, Len(part) - 1)) + (part[Len(part)] - 48)

\* prod(numbers) over the all-digit parts.
RECURSIVE ProdDigits(_)
ProdDigits(parts) ==
    IF Len(parts) = 0 THEN 1
    ELSE (IF IsDigit(Head(parts)) THEN IntOf(Head(parts)) ELSE 1)
         * ProdDigits(Tail(parts))

\* DNSServer._encode_domain_question(domain): each part as len(part), the
\* number of its characters, and part.encode().  Parts here are < 256
\* characters.
RECURSIVE EncodeParts(_)
EncodeParts(parts) ==
    IF Len(parts) = 0 THEN << >>
    ELSE << Len(Head(parts)) >> \o Utf8Encode(Head(parts))
         \o EncodeParts(Tail(parts))
EncodeDomainQuestion(domain) == EncodeParts(Split(domain)) \o << 0 >>

\* DNSServer._create_dns_response(id, domain, ip); ip as its 4 bytes
\* (socket.inet_aton of the dotted text).
CreateDnsResponse(id, domain, ip) ==
    Pack6H(id, 33152, 1, 1, 0, 0)
    \o EncodeDomainQuestion(domain) \o PackH(1) \o PackH(1)
    \o EncodeDomainQuestion(domain)
    \o PackH(1) \o PackH(1) \o << 0, 0, 0, 60 >> \o PackH(4) \o ip

\* "error.local"
ErrorLocal == << 101, 114, 114, 111, 114, 46, 108, 111, 99, 97, 108 >>

\* _create_error_response with the id field left 0.
CreateErrorResponseZeroId(id) ==
    Pack6H(0, 33155, 1, 0, 0, 0)
    \o EncodeDomainQuestion(ErrorLocal) \o PackH(1) \o PackH(1)

\* DNSServer._create_error_response(id)
CreateErrorResponse(id) ==
    Pack6H(id, 33155, 1, 0, 0, 0)
    \o EncodeDomainQuestion(ErrorLocal) \o PackH(1) \o PackH(1)

\* DNSServer._process_multiply_query(domain, id)
ProcessMultiplyQuery(domain, id) ==
    LET result == ProdDigits(Split(domain)) % 256
    IN  CreateDnsResponse(id, domain, << 127, 0, 0, result >>)

\* ------------------------------------------------- messages of the model
\* DNSServer.root_server "198.41.0.4", and two further name servers.
RootServer == << 198, 41, 0, 4 >>
Ns2 == << 10, 0, 0, 2 >>
Ns3 == << 10, 0, 0, 3 >>
Servers == { RootServer, Ns2, Ns3 }

\* The question "a" IN A, and resource records.
QuestionA == << 1, 97, 0 >> \o PackH(1) \o PackH(1)
NsName == << 2, 110, 115, 0 >>
ARecordPtr(ip) ==
    << 192, 12 >> \o PackH(1) \o PackH(1) \o << 0, 0, 0, 60 >> \o PackH(4) \o ip
ARecordLit(ip) ==
    NsName \o PackH(1) \o PackH(1) \o << 0, 0, 0, 60 >> \o PackH(4) \o ip
NsRecordPtr ==
    << 192, 12 >> \o PackH(2) \o PackH(1) \o << 0, 0, 0, 60 >> \o PackH(4) \o NsName

\* Datagrams a client may send to the server.
QueryA(id) == Pack6H(id, 256, 1, 0, 0, 0) \o QuestionA
\* "6.7.multiply.test"
MultiplyTest ==
    << 54, 46, 55, 46 >> \o MultiplyWord \o << 46, 116, 101, 115, 116 >>
QueryMultiply ==
    Pack6H(3, 256, 1, 0, 0, 0) \o EncodeDomainQuestion(MultiplyTest)
    \o PackH(1) \o PackH(1)
\* "300.3.multiply.x", asked with transaction id 515.
MultiplyLarge == << 51, 48, 48, 46, 51, 46 >> \o MultiplyWord \o << 46, 120 >>
QueryMultiplyLarge ==
    Pack6H(515, 256, 1, 0, 0, 0) \o EncodeDomainQuestion(MultiplyLarge)
    \o PackH(1) \o PackH(1)
QueryShort == << 0, 9, 1, 0, 0, 1, 0, 0 >>
QueryBadLabel == Pack6H(5, 256, 1, 0, 0, 0) \o << 1, 255, 0 >> \o PackH(1) \o PackH(1)
ClientQueries ==
    { QueryA(1), QueryA(513), QueryMultiply, QueryMultiplyLarge, QueryShort,
      QueryBadLabel }
Clients == { "c1", "c2" }

\* Replies a queried name server may send.
\* An answer (ancount 1), with RCODE 0 and with RCODE 2.
ReplyAnswer == Pack6H(1, 33152, 1, 1, 0, 0) \o QuestionA \o ARecordPtr(<< 93, 184, 216, 34 >>)
ReplyAnswerServFail ==
    Pack6H(1, 33154, 1, 1, 0, 0) \o QuestionA \o ARecordPtr(<< 93, 184, 216, 34 >>)
\* A referral carried by the additional section alone (nscount 0, arcount 1).
ReplyGlueOnly(next) == Pack6H(1, 32768, 1, 0, 0, 1) \o QuestionA \o ARecordLit(next)
\* A referral with one NS record and one glue record (nscount 1, arcount 1).
ReplyNsGlue(next) ==
    Pack6H(1, 32768, 1, 0, 1, 1) \o QuestionA \o NsRecordPtr \o ARecordLit(next)
\* A referral with one NS record and two glue records (nscount 1, arcount 2).
ReplyNsGlue2(next) ==
    Pack6H(1, 32768, 1, 0, 1, 2) \o QuestionA \o NsRecordPtr \o ARecordLit(next)
    \o ARecordLit(<< 10, 0, 0, 9 >>)
\* An NS record and no additional record (nscount 1, arcount 0).
ReplyNsOnly == Pack6H(1, 32768, 1, 0, 1, 0) \o QuestionA \o NsRecordPtr
\* No record at all (name error).
ReplyEmpty == Pack6H(1, 33155, 1, 0, 0, 0) \o QuestionA
\* A reply cut to 8 bytes, and a referral cut after its question.
ReplyShort == << 0, 1, 128, 0, 0, 1, 0, 0 >>
ReplyCut == Pack6H(1, 32768, 1, 0, 1, 1) \o QuestionA
\* A referral (nscount 1, arcount 2) whose glue record is named by a
\* compression pointer to that pointer's own offset.
ReplyPointerLoop ==
    Pack6H(1, 32768, 1, 0, 1, 2) \o QuestionA \o NsRecordPtr
    \o << 192, 12 + Len(QuestionA) + Len(NsRecordPtr) >>
    \o PackH(1) \o PackH(1) \o << 0, 0, 0, 60 >> \o PackH(4) \o Ns2
\* A referral (nscount 1, arcount 2) whose first glue record is named by a
\* pointer to the name in the NS record's data.
ReplyNsGluePtr(next) ==
    Pack6H(1, 32768, 1, 0, 1, 2) \o QuestionA \o NsRecordPtr
    \o << 192, 12 + Len(QuestionA) + Len(NsRecordPtr) - Len(NsName) >>
    \o PackH(1) \o PackH(1) \o << 0, 0, 0, 60 >> \o PackH(4) \o next
    \o ARecordLit(<< 10, 0, 0, 9 >>)
Replies ==
    { ReplyAnswer, ReplyAnswerServFail, ReplyNsOnly, ReplyEmpty, ReplyShort, ReplyCut,
      ReplyPointerLoop, ReplyNsGluePtr(Ns2) }
    \cup { ReplyGlueOnly(n) : n \in Servers }
    \cup { ReplyNsGlue(n) : n \in { Ns2 } }
    \cup { ReplyNsGlue2(n) : n \in Servers }

\* ======================================================== program state
\* The cache and resolver of src/hw2_dns_server.py.
VARIABLES
    cache,       \* DNSCache.cache: domain -> [ips, expire]
    saved,       \* what _save_cache wrote last to CACHE_FILE: domain -> << ips, expire >>
    saves,       \* whether the last operation called _save_cache
    now,         \* time.time(), in seconds
    ticks,       \* clock advances made so far
    op,          \* the last call made on the cache or the resolver:
                 \* [name, domain, at]
    ret          \* what that call returned: [kind, ips] with kind "list",
                 \* "None", "raise" or "pending" (the call waits for a reply)

cacheVars == << cache, saved, saves, now, ticks, op, ret >>

VARIABLES
    resPc,       \* "idle": no resolve in progress; "waiting": send_query waits
                 \* in recv (line 62); "crashed": an exception left resolve
    packet,      \* the packet send_query sent last
    nqueries,    \* packets sent to the upstream resolver so far
    upResponse,  \* what send_query returned last: [kind, data], kind "bytes"
                 \* or "None"
    obtained     \* for each domain, the list the last resolve that got
                 \* addresses from upstream returned, and when: [ips, at]

resVars == << resPc, packet, nqueries, upResponse, obtained >>

\* The name codec of the server, applied to one name.
VARIABLES
    name,        \* the domain name given to _encode_domain_question
    encoded,     \* the bytes it returned, with what follows them in a message
    decoded,     \* what _decode_domain_name made of them: [kind, value, exc]
    codecPc      \* "start", "encoded", "decoded"

codecVars == << name, encoded, decoded, codecPc >>

\* traceroute of src/hw4_traceroute.py, one call.
VARIABLES
    trPc,        \* "start": traceroute called; "loop": at the loop test of
                 \* line 20; "done": returned; "raised": left by an exception
    destination, \* the argument destination_ip
    protocol,    \* the argument protocol
    max_hops,    \* the argument max_hops
    probeTtl,    \* the local ttl
    hop_num,     \* the local hop_num
    calls,       \* the ttl of each call of send_packet, in order
    sent,        \* the ttl of each packet given to sr1, in order
    responses    \* what each call of send_packet returned, in order

trVars == << trPc, destination, protocol, max_hops, probeTtl, hop_num, calls,
             sent, responses >>

\* ================================================== the iterative server
VARIABLES
    srvPc,       \* "recvfrom": run_server waits for a datagram (line 16);
                 \* "recv": _iterative_resolve waits for a reply (line 38);
                 \* "crashed": an exception left run_server, the process ended
    data,        \* the datagram being handled
    addr,        \* its sender
    received,    \* datagrams received by run_server so far
    nsent,       \* responses sent by run_server so far (line 18)
    lastSent,    \* the last of them: [addr, data]
    query,       \* _iterative_resolve's parameter query in the current call
    server,      \* _iterative_resolve's parameter server in the current call
    depth,       \* nested calls of _iterative_resolve in progress
    hops,        \* the datagrams sent to name servers for this request:
                 \* a sequence of [server, query]
    replies,     \* the replies received for this request, in order
    navAsked,    \* for each reply received for this request, whether
                 \* _find_next_server_name was called on it
    outcome,     \* how the handling of the last request ended: "none" (not yet),
                 \* "Multiply", "Answered", "Failed", "Raised"
    exc,         \* the exception that ended it, "none" if none
    hopSockets   \* per-hop UDP sockets currently open

srvVars == << srvPc, data, addr, received, nsent, lastSent, query, server, depth,
              hops, replies, navAsked, outcome, exc, hopSockets >>

NoDatagram == << >>
NoSent == [addr |-> "nobody", data |-> NoDatagram]

SrvInit ==
    /\ srvPc = "recvfrom"
    /\ data = NoDatagram
    /\ addr = "nobody"
    /\ received = 0
    /\ nsent = 0
    /\ lastSent = NoSent
    /\ query = NoDatagram
    /\ server = RootServer
    /\ depth = 0
    /\ hops = << >>
    /\ replies = << >>
    /\ navAsked = << >>
    /\ outcome = "none"
    /\ exc = "none"
    /\ hopSockets = 0

\* _handle_request(data), lines 21-25, up to its call of _iterative_resolve:
\* "raise" (header or name cannot be decoded), "multiply" with the response, or
\* "resolve".
HandleRequest(d) ==
    IF ~HeaderOk(d)
    THEN [kind |-> "raise", response |-> NoDatagram, exc |-> "struct.error"]
    ELSE LET header   == Header(d)
             question == Slice(d, 12, Len(d))
             domain   == DecodeDomainName(question)
         IN  IF domain.kind = "raise"
             THEN [kind |-> "raise", response |-> NoDatagram, exc |-> domain.exc]
             ELSE IF Contains(domain.value, MultiplyWord)
                     /\ IntRaises(Split(domain.value))
             THEN [kind |-> "raise", response |-> NoDatagram, exc |-> "ValueError"]
             ELSE IF Contains(domain.value, MultiplyWord)
             THEN [kind |-> "multiply",
                   response |-> ProcessMultiplyQuery(domain.value, header[0]),
                   exc |-> "none"]
             ELSE [kind |-> "resolve", response |-> NoDatagram, exc |-> "none"]

\* NextQuery with the reply passed on in place of the query.
NextQueryFromReply(q, response) == response

\* The first argument of the self-call of line 45.
NextQuery(q, response) == q

\* IterativeStep with an answer accepted only when its RCODE is 0.
IterativeStepRcodeChecked(response) ==
    IF ~HeaderOk(response)
    THEN [kind |-> "raise", ip |-> NoIp, exc |-> "struct.error", nav |-> FALSE]
    ELSE IF Header(response)[3] > 0 /\ Header(response)[1] % 16 = 0
    THEN [kind |-> "answered", ip |-> NoIp, exc |-> "none", nav |-> FALSE]
    ELSE [kind |-> "failed", ip |-> NoIp, exc |-> "none", nav |-> FALSE]

\* _iterative_resolve after recv returned `response`, lines 39-46:
\* "answered" (return response), "failed" (return None), "next" (call itself
\* for the server ip) or "raise".  nav tells whether _find_next_server_name
\* was called.
IterativeStep(response) ==
    IF ~HeaderOk(response)
    THEN [kind |-> "raise", ip |-> NoIp, exc |-> "struct.error", nav |-> FALSE]
    ELSE LET header == Header(response)
             next_server == FindNextServerName(response)
         IN  IF header[3] > 0
             THEN [kind |-> "answered", ip |-> NoIp, exc |-> "none", nav |-> FALSE]
             ELSE IF header[4] > 0
             THEN IF next_server.kind = "raise"
                  THEN [kind |-> "raise", ip |-> NoIp, exc |-> next_server.exc,
                        nav |-> TRUE]
                  ELSE IF next_server.kind = "addr"
                  THEN [kind |-> "next", ip |-> next_server.ip, exc |-> "none",
                        nav |-> TRUE]
                  ELSE [kind |-> "failed", ip |-> NoIp, exc |-> "none", nav |-> TRUE]
             ELSE [kind |-> "failed", ip |-> NoIp, exc |-> "none", nav |-> FALSE]

\* The `with` block of line 35 left with the hop's socket still open.
WithExitLeaks(n) == n

\* `with socket.socket(...) as s:` (line 35): entering the block opens a
\* socket; leaving it, by the end of line 38 or by an exception raised in it,
\* closes that socket.  n is the number of per-hop sockets open.
WithEnter(n) == n + 1
WithExit(n) == n - 1

\* The sockets open once the call waiting in recv (if any) has left its `with`
\* block.
SocketsAfterHop == IF srvPc = "recv" THEN WithExit(hopSockets) ELSE hopSockets

\* An exception leaves _handle_request and run_server: no response is sent and
\* the loop ends.
Crash(e) ==
    /\ srvPc' = "crashed"
    /\ outcome' = "Raised"
    /\ exc' = e
    /\ depth' = 0
    /\ hopSockets' = SocketsAfterHop
    /\ UNCHANGED << nsent, lastSent >>

\* run_server line 18 after _handle_request returned `response`; then the loop
\* waits for the next datagram.
SendResponse(response, how) ==
    /\ srvPc' = "recvfrom"
    /\ outcome' = how
    /\ exc' = "none"
    /\ depth' = 0
    /\ hopSockets' = SocketsAfterHop
    /\ nsent' = nsent + 1
    /\ lastSent' = [addr |-> addr', data |-> response]

\* run_server receives datagram d from a (line 16) and _handle_request runs up
\* to the first recv of _iterative_resolve, or to its end.
RecvRequest(d, a) ==
    /\ srvPc = "recvfrom"
    /\ UNCHANGED << cacheVars, resVars, codecVars, trVars >>
    /\ received < MaxRequests
    /\ received' = received + 1
    /\ data' = d
    /\ addr' = a
    /\ replies' = << >>
    /\ navAsked' = << >>
    /\ LET h == HandleRequest(d)
       IN  \/ /\ h.kind = "raise"
              /\ Crash(h.exc)
              /\ hops' = << >>
              /\ UNCHANGED << query, server >>
           \/ /\ h.kind = "multiply"
              /\ SendResponse(h.response, "Multiply")
              /\ hops' = << >>
              /\ UNCHANGED << query, server >>
           \/ /\ h.kind = "resolve"
              /\ query' = d
              /\ server' = RootServer
              /\ depth' = 1
              /\ hopSockets' = WithEnter(hopSockets)
              /\ hops' = << [server |-> RootServer, query |-> d] >>
              /\ srvPc' = "recv"
              /\ outcome' = "none"
              /\ exc' = "none"
              /\ UNCHANGED << nsent, lastSent >>

\* recv returns `response` (line 38): the hop's socket is closed, the reply is
\* examined, and the call returns, raises, or calls itself for the next server.
HopReply(response) ==
    /\ srvPc = "recv"
    /\ UNCHANGED << cacheVars, resVars, codecVars, trVars >>
    /\ replies' = Append(replies, response)
    /\ UNCHANGED << data, addr, received >>
    /\ LET st == IterativeStep(response)
       IN  /\ navAsked' = Append(navAsked, st.nav)
           /\ \/ /\ st.kind = "answered"
                 /\ SendResponse(response, "Answered")
                 /\ UNCHANGED << query, server, hops >>
              \/ /\ st.kind = "failed"
                 /\ SendResponse(CreateErrorResponse(Header(data)[0]), "Failed")
                 /\ UNCHANGED << query, server, hops >>
              \/ /\ st.kind = "raise"
                 /\ Crash(st.exc)
                 /\ UNCHANGED << query, server, hops >>
              \/ /\ st.kind = "next"
                 /\ depth >= RecursionLimit
                 /\ Crash("RecursionError")
                 /\ UNCHANGED << query, server, hops >>
              \/ /\ st.kind = "next"
                 /\ depth < RecursionLimit
                 /\ query' = NextQuery(query, response)
                 /\ server' = st.ip
                 /\ depth' = depth + 1
                 /\ hopSockets' = WithEnter(WithExit(hopSockets))
                 /\ hops' = Append(hops, [server |-> st.ip, query |-> query'])
                 /\ UNCHANGED << srvPc, outcome, exc, nsent, lastSent >>

\* recv raises socket.timeout after 5 s (lines 37-38): nothing catches it.
HopTimeout ==
    /\ srvPc = "recv"
    /\ UNCHANGED << cacheVars, resVars, codecVars, trVars >>
    /\ Crash("socket.timeout")
    /\ UNCHANGED << data, addr, received, query, server, hops, replies, navAsked >>

SrvNext ==
    \/ \E d \in ClientQueries, a \in Clients : RecvRequest(d, a)
    \/ \E r \in Replies : HopReply(r)
    \/ HopTimeout

\* ====================================================== the cache (DNSCache)
\* add_value's default ttl, the TTL resolve stores every list with.
DefaultTtl == 300
\* Clock advances the model makes in one run.
MaxTicks == 3
\* Seconds the clock may advance by in one step.
TickSteps == { 1, DefaultTtl - 1 }

\* Domain names as character codes: "a", "b" and "6.7.multiply.test".
DomA == << 97 >>
DomB == << 98 >>
Domains == { DomA, DomB }
Ip1 == << 93, 184, 216, 34 >>
Ip2 == << 93, 184, 216, 35 >>

NoEntries == << >>
NoOp == [name |-> "none", domain |-> << >>, at |-> 0]
RetNone == [kind |-> "None", ips |-> << >>]
RetList(ips) == [kind |-> "list", ips |-> ips]

\* self.cache[domain] = entry, and del self.cache[domain].
DictPut(c, domain, entry) ==
    [x \in DOMAIN c \cup { domain } |-> IF x = domain THEN entry ELSE c[x]]
DictDel(c, domain) == [x \in DOMAIN c \ { domain } |-> c[x]]

\* _save_cache: json.dump writes each entry, the tuple (ip_addresses,
\* expire_time), as a JSON array of two elements under its domain;
\* _load_cache: json.load gives each array back as a list, which get_value
\* unpacks into ip_addresses and expire_time.  No file loads as {}.
SaveCache(c) == [x \in DOMAIN c |-> << c[x].ips, c[x].expire >>]
LoadCache(file) == [x \in DOMAIN file |-> [ips |-> file[x][1], expire |-> file[x][2]]]

CacheInit ==
    /\ cache = NoEntries
    /\ saved = NoEntries
    /\ saves = FALSE
    /\ now = 0
    /\ ticks = 0
    /\ op = NoOp
    /\ ret = RetNone

\* add_value with the expiry taken as the time of the call, the ttl dropped.
CacheAddValueNoTtl(c, domain, ip_addresses, ttl, t) ==
    DictPut(c, domain, [ips |-> ip_addresses, expire |-> t])

\* add_value that leaves an entry the domain already has as it is.
CacheAddValueKeepsOld(c, domain, ip_addresses, ttl, t) ==
    IF domain \in DOMAIN c THEN c
    ELSE DictPut(c, domain, [ips |-> ip_addresses, expire |-> t + ttl])

\* DNSCache.add_value(domain, ip_addresses, ttl) at time t: the new mapping
\* (which _save_cache then writes).
CacheAddValue(c, domain, ip_addresses, ttl, t) ==
    DictPut(c, domain, [ips |-> ip_addresses, expire |-> t + ttl])

\* get_value with the expiry never looked at.
CacheGetValueNoExpiry(c, domain, t) ==
    IF domain \in DOMAIN c
    THEN [ret |-> RetList(c[domain].ips), cache |-> c, save |-> FALSE]
    ELSE [ret |-> RetNone, cache |-> c, save |-> FALSE]

\* get_value with an entry still served at the instant it expires.
CacheGetValueLate(c, domain, t) ==
    IF domain \in DOMAIN c
    THEN IF t <= c[domain].expire
         THEN [ret |-> RetList(c[domain].ips), cache |-> c, save |-> FALSE]
         ELSE [ret |-> RetNone, cache |-> DictDel(c, domain), save |-> TRUE]
    ELSE [ret |-> RetNone, cache |-> c, save |-> FALSE]

\* get_value that deletes an expired entry and does not call _save_cache.
CacheGetValueNoSave(c, domain, t) ==
    IF domain \in DOMAIN c
    THEN IF t < c[domain].expire
         THEN [ret |-> RetList(c[domain].ips), cache |-> c, save |-> FALSE]
         ELSE [ret |-> RetNone, cache |-> DictDel(c, domain), save |-> FALSE]
    ELSE [ret |-> RetNone, cache |-> c, save |-> FALSE]

\* DNSCache.get_value(domain) at time t: what it returns, the mapping it
\* leaves, and whether it called _save_cache.
CacheGetValue(c, domain, t) ==
    IF domain \in DOMAIN c
    THEN IF t < c[domain].expire
         THEN [ret |-> RetList(c[domain].ips), cache |-> c, save |-> FALSE]
         ELSE [ret |-> RetNone, cache |-> DictDel(c, domain), save |-> TRUE]
    ELSE [ret |-> RetNone, cache |-> c, save |-> FALSE]

\* ttl arguments and address lists the callers of the cache pass.
TtlValues == { 0, 1, DefaultTtl }
IpLists == { << Ip1 >>, << Ip1, Ip2 >>, << >> }

\* cache.add_value(domain, ip_addresses, ttl)
AddValue(domain, ip_addresses, ttl) ==
    /\ cache' = CacheAddValue(cache, domain, ip_addresses, ttl, now)
    /\ saved' = SaveCache(cache')
    /\ saves' = TRUE
    /\ op' = [name |-> "add_value", domain |-> domain, at |-> now]
    /\ ret' = RetNone
    /\ UNCHANGED << now, ticks >>
    /\ UNCHANGED resVars
    /\ UNCHANGED << srvVars, codecVars, trVars >>

\* cache.get_value(domain)
GetValue(domain) ==
    LET g == CacheGetValue(cache, domain, now)
    IN  /\ cache' = g.cache
        /\ saved' = IF g.save THEN SaveCache(g.cache) ELSE saved
        /\ saves' = g.save
        /\ op' = [name |-> "get_value", domain |-> domain, at |-> now]
        /\ ret' = g.ret
        /\ UNCHANGED << now, ticks >>
        /\ UNCHANGED resVars
        /\ UNCHANGED << srvVars, codecVars, trVars >>

\* time passes.
Tick(delta) ==
    /\ ticks < MaxTicks
    /\ ticks' = ticks + 1
    /\ now' = now + delta
    /\ UNCHANGED << cache, saved, saves, op, ret >>
    /\ UNCHANGED resVars
    /\ UNCHANGED << srvVars, codecVars, trVars >>

\* The process starts again: DNSCache() loads CACHE_FILE (lines 141-148).
Restart ==
    /\ cache' = LoadCache(saved)
    /\ saves' = FALSE
    /\ op' = [name |-> "load", domain |-> << >>, at |-> now]
    /\ ret' = RetNone
    /\ UNCHANGED << saved, now, ticks >>
    /\ UNCHANGED resVars
    /\ UNCHANGED << srvVars, codecVars, trVars >>

CacheNext ==
    \/ \E d \in Domains, ips \in IpLists, ttl \in TtlValues : AddValue(d, ips, ttl)
    \/ \E d \in Domains : GetValue(d)
    \/ \E delta \in TickSteps : Tick(delta)

\* The cache over several runs of the process; the lists stored are the ones
\* resolve stores (non-empty), with a ttl of 1 s or the default.
StoredLists == { << Ip1 >>, << Ip1, Ip2 >> }
StoredTtls == { 1, DefaultTtl }
CacheFileNext ==
    \/ \E d \in Domains, ips \in StoredLists, ttl \in StoredTtls : AddValue(d, ips, ttl)
    \/ \E d \in Domains : GetValue(d)
    \/ \E delta \in TickSteps : Tick(delta)
    \/ Restart

\* ================================================ the resolver (DNSResolver)
\* Packets resolve may send upstream before the model stops calling it.
MaxQueries == 2

\* "6.7.multiply.test" is MultiplyTest; ".multiply." is the marker of resolve.
DotMultiplyDot == << 46 >> \o MultiplyWord \o << 46 >>
\* "\u00b2.3.multiply.t": the first label is a digit that int() rejects.
MultiplySupTwo == << 178, 46, 51 >> \o DotMultiplyDot \o << 116 >>
ResolveDomains == { DomA, DomB, MultiplyTest, MultiplySupTwo }
\* Values random.randint(0, 65535) may give DNSHeader.transaction_id.
TransactionIds == { 1, 513 }

NoResponse == [kind |-> "None", data |-> << >>]

ResInit ==
    /\ resPc = "idle"
    /\ packet = << >>
    /\ nqueries = 0
    /\ upResponse = NoResponse
    /\ obtained = NoEntries

\* DNSPacket(domain).create_packet() with transaction id `id`.
CreatePacket(id, domain) ==
    Pack6H(id, 256, 1, 0, 0, 0) \o EncodeDomainQuestion(domain) \o PackH(1) \o PackH(1)

\* `while offset < len(response) and response[offset] != 0: offset += 1`
RECURSIVE SkipToZeroBounded(_, _)
SkipToZeroBounded(buf, offset) ==
    IF offset >= Len(buf) THEN offset
    ELSE IF Byte(buf, offset) = 0 THEN offset
    ELSE SkipToZeroBounded(buf, offset + 1)

\* parse_response's loop over the questions (lines 78-81).
RECURSIVE ParseSkipQuestions(_, _, _)
ParseSkipQuestions(buf, offset, qdcount) ==
    IF qdcount = 0 THEN offset
    ELSE ParseSkipQuestions(buf, SkipToZeroBounded(buf, offset) + 5, qdcount - 1)

\* parse_response's loop over the answers (lines 85-104): the addresses
\* collected, or struct.error when a field is cut short.
RECURSIVE ParseAnswers(_, _, _, _)
ParseAnswers(buf, offset, ancount, ip_addresses) ==
    IF ancount = 0 \/ offset + 10 > Len(buf)
    THEN [kind |-> "ok", ips |-> ip_addresses]
    ELSE
      LET o        == offset + 2
          tbytes   == Slice(buf, o, o + 2)
          cbytes   == Slice(buf, o + 2, o + 4)
          ttlbytes == Slice(buf, o + 4, o + 8)
          lbytes   == Slice(buf, o + 8, o + 10)
          o2       == o + 10
      IN  IF Len(tbytes) # 2 \/ Len(cbytes) # 2 \/ Len(ttlbytes) # 4 \/ Len(lbytes) # 2
          THEN [kind |-> "raise", ips |-> << >>]
          ELSE IF o2 + UnpackH(lbytes) > Len(buf)
          THEN [kind |-> "ok", ips |-> ip_addresses]
          ELSE ParseAnswers(buf, o2 + UnpackH(lbytes), ancount - 1,
                   IF UnpackH(tbytes) = 1 /\ UnpackH(lbytes) = 4
                   THEN Append(ip_addresses, Slice(buf, o2, o2 + 4))
                   ELSE ip_addresses)

\* parse_response without its `not response` test: len(None) raises TypeError.
ParseResponseNoNoneTest(resp) ==
    IF resp.kind = "None" THEN [kind |-> "raise", ips |-> << >>]
    ELSE IF Len(resp.data) < 12 THEN RetNone
    ELSE LET qdcount == UnpackH(Slice(resp.data, 4, 6))
             ancount == UnpackH(Slice(resp.data, 6, 8))
             offset  == ParseSkipQuestions(resp.data, 12, qdcount)
             parsed  == ParseAnswers(resp.data, offset, ancount, << >>)
         IN  IF parsed.kind = "raise" THEN [kind |-> "raise", ips |-> << >>]
             ELSE IF Len(parsed.ips) > 0 THEN RetList(parsed.ips)
             ELSE RetNone

\* DNSResolver.parse_response(response); an address is kept as its 4 bytes.
ParseResponse(resp) ==
    IF resp.kind = "None" \/ Len(resp.data) < 12 THEN RetNone
    ELSE LET qdcount == UnpackH(Slice(resp.data, 4, 6))
             ancount == UnpackH(Slice(resp.data, 6, 8))
             offset  == ParseSkipQuestions(resp.data, 12, qdcount)
             parsed  == ParseAnswers(resp.data, offset, ancount, << >>)
         IN  IF parsed.kind = "raise" THEN [kind |-> "raise", ips |-> << >>]
             ELSE IF Len(parsed.ips) > 0 THEN RetList(parsed.ips)
             ELSE RetNone

\* The loop of handle_multiply: result = (result * num) % 256 over the
\* all-digit parts.
RECURSIVE MultiplyFold(_, _)
MultiplyFold(parts, result) ==
    IF Len(parts) = 0 THEN result
    ELSE MultiplyFold(Tail(parts),
             IF IsDigit(Head(parts)) THEN (result * IntOf(Head(parts))) % 256
             ELSE result)

\* DNSResolver.handle_multiply(domain): the address 127.0.0.result, or
\* 127.0.0.1 when int() raised ValueError on a part (lines 136-137).
HandleMultiply(domain) ==
    LET parts == Split(domain)
    IN  IF IntRaises(parts)
        THEN << 127, 0, 0, 1 >>
        ELSE << 127, 0, 0, MultiplyFold(parts, 1) >>

\* Replies the upstream resolver may send.
CnameRecord ==
    << 192, 12 >> \o PackH(5) \o PackH(1) \o << 0, 0, 0, 60 >> \o PackH(2) \o << 192, 12 >>
ARecordTtl(ip, ttl) ==
    << 192, 12 >> \o PackH(1) \o PackH(1) \o << 0, 0, 0, ttl >> \o PackH(4) \o ip
\* One A record whose own TTL is 1 s.
UpAnswer == Pack6H(1, 33152, 1, 1, 0, 0) \o QuestionA \o ARecordTtl(Ip1, 1)
\* A CNAME record and two A records.
UpAnswer2 ==
    Pack6H(1, 33152, 1, 3, 0, 0) \o QuestionA \o CnameRecord
    \o ARecordTtl(Ip1, 60) \o ARecordTtl(Ip2, 60)
\* A CNAME record alone, no record, 8 bytes, and an A record cut after its TTL.
UpCnameOnly == Pack6H(1, 33152, 1, 1, 0, 0) \o QuestionA \o CnameRecord
UpEmpty == Pack6H(1, 33155, 1, 0, 0, 0) \o QuestionA
UpShort == << 0, 1, 129, 128, 0, 1, 0, 0 >>
UpCut ==
    Pack6H(1, 33152, 1, 1, 0, 0) \o QuestionA
    \o << 192, 12 >> \o PackH(1) \o PackH(1) \o << 0, 0, 0, 60 >>
UpstreamReplies == { UpAnswer, UpAnswer2, UpCnameOnly, UpEmpty, UpShort, UpCut }

\* resolve(domain), lines 110-121, up to the recv of send_query or to its
\* return (synthetic domain, cache hit); id is the packet's transaction id.
Resolve(domain, id) ==
    /\ resPc = "idle"
    /\ nqueries < MaxQueries
    /\ op' = [name |-> "resolve", domain |-> domain, at |-> now]
    /\ UNCHANGED << now, ticks, upResponse, obtained >>
    /\ UNCHANGED << srvVars, codecVars, trVars >>
    /\ IF Contains(domain, DotMultiplyDot)
       THEN /\ ret' = RetList(<< HandleMultiply(domain) >>)
            /\ saves' = FALSE
            /\ UNCHANGED << cache, saved, resPc, packet, nqueries >>
       ELSE LET g == CacheGetValue(cache, domain, now)
            IN  /\ cache' = g.cache
                /\ saved' = IF g.save THEN SaveCache(g.cache) ELSE saved
                /\ saves' = g.save
                /\ IF g.ret.kind = "list" /\ Len(g.ret.ips) > 0
                   THEN /\ ret' = g.ret
                        /\ UNCHANGED << resPc, packet, nqueries >>
                   ELSE /\ ret' = [kind |-> "pending", ips |-> << >>]
                        /\ packet' = CreatePacket(id, domain)
                        /\ nqueries' = nqueries + 1
                        /\ resPc' = "waiting"

\* resolve after send_query returned resp, lines 123-126.
ResolveFinish(resp) ==
    LET ip_addresses == ParseResponse(resp)
    IN  /\ upResponse' = resp
        /\ ret' = ip_addresses
        /\ UNCHANGED << now, ticks, op, packet, nqueries >>
        /\ UNCHANGED << srvVars, codecVars, trVars >>
        /\ IF ip_addresses.kind = "list"
           THEN /\ cache' = CacheAddValue(cache, op.domain, ip_addresses.ips,
                                          DefaultTtl, now)
                /\ saved' = SaveCache(cache')
                /\ saves' = TRUE
                /\ obtained' = DictPut(obtained, op.domain,
                                       [ips |-> ip_addresses.ips, at |-> now])
                /\ resPc' = "idle"
           ELSE /\ resPc' = IF ip_addresses.kind = "raise" THEN "crashed" ELSE "idle"
                /\ UNCHANGED << cache, saved, saves, obtained >>

\* The upstream resolver's reply arrives (send_query line 62-63).
UpstreamReply(r) ==
    /\ resPc = "waiting"
    /\ ResolveFinish([kind |-> "bytes", data |-> r])

\* recv raises socket.timeout; send_query returns None (lines 64-66).
UpstreamTimeout ==
    /\ resPc = "waiting"
    /\ ResolveFinish(NoResponse)

ResolverNext ==
    \/ \E d \in ResolveDomains, id \in TransactionIds : Resolve(d, id)
    \/ \E r \in UpstreamReplies : UpstreamReply(r)
    \/ UpstreamTimeout
    \/ \E delta \in TickSteps : Tick(delta)

\* =========================================================== the name codec
\* Longest name, in labels, and longest label, in characters, given to the
\* encoder.
MaxLabels == 2
MaxLabelLen == 2
\* The characters of the names: "a", "1" and "\u00e9" (two bytes in UTF-8).
NameChars == { 97, 49, 233 }
Labels == UNION { [1..n -> NameChars] : n \in 1..MaxLabelLen }
\* Valid names: every label 1 to 63 bytes, the encoded name at most 255 bytes.
ValidNames ==
    { n \in { Join(ls) : ls \in UNION { [1..k -> Labels] : k \in 1..MaxLabels } } :
        /\ \A k \in 1..Len(Split(n)) : Len(Utf8Encode(Split(n)[k])) \in 1..63
        /\ Len(Utf8Encode(n)) + 2 <= 255 }
\* What follows the name in a question: nothing, or type A and class IN.
QuestionTails == { << >>, PackH(1) \o PackH(1) }
NotDecoded == [kind |-> "none", value |-> << >>, exc |-> "none"]

CodecIdle ==
    /\ name = << >>
    /\ encoded = << >>
    /\ decoded = NotDecoded
    /\ codecPc = "start"

CodecInit ==
    /\ name \in ValidNames
    /\ encoded = << >>
    /\ decoded = NotDecoded
    /\ codecPc = "start"

\* _encode_domain_question(name), the question's tail appended.
EncodeQuestion(tail) ==
    /\ codecPc = "start"
    /\ encoded' = EncodeDomainQuestion(name) \o tail
    /\ codecPc' = "encoded"
    /\ UNCHANGED << name, decoded >>
    /\ UNCHANGED << srvVars, cacheVars, resVars, trVars >>

\* _decode_domain_name(encoded)
DecodeQuestion ==
    /\ codecPc = "encoded"
    /\ decoded' = DecodeDomainName(encoded)
    /\ codecPc' = "decoded"
    /\ UNCHANGED << name, encoded >>
    /\ UNCHANGED << srvVars, cacheVars, resVars, trVars >>

CodecNext ==
    \/ \E tail \in QuestionTails : EncodeQuestion(tail)
    \/ DecodeQuestion

\* ============================================================== traceroute
\* Largest max_hops a call is given.
MaxHopsArg == 3
\* Destinations: an IPv4 address, an IPv6 address, and a text that is no
\* address.  Routers answer from RouterIp.
DstV4 == "10.0.0.9"
DstV6 == "2001:db8::1"
DstName == "example.com"
RouterIp == "10.0.0.1"
Destinations == { DstV4, DstV6, DstName }
Protocols == { "icmp", "udp", "tcp", "gre" }

\* ip_address(destination_ip).version; 0 stands for the ValueError raised on a
\* text that is no address.
IpVersion(d) == IF d = DstV4 THEN 4 ELSE IF d = DstV6 THEN 6 ELSE 0

\* What send_packet may return when it has given a packet to sr1: None (no
\* answer within the timeout, or sr1 raised), an answer with an IP layer from
\* a router or from the destination, or an answer without an IP layer.
NoAnswer == [kind |-> "None", src |-> ""]
AnswerFrom(a) == [kind |-> "ip", src |-> a]
AnswerNoIp == [kind |-> "noip", src |-> ""]
Sr1Results(d) == { NoAnswer, AnswerFrom(RouterIp), AnswerFrom(d), AnswerNoIp }

\* send_packet: whether the protocol is one it builds a packet for (lines
\* 53-60); for any other it returns None and sends nothing.
BuildsPacket(p) == p \in { "icmp", "udp", "tcp" }

\* _get_ip_from_response(response)
GetIpFromResponse(r) == IF r.kind = "ip" THEN r.src ELSE "*"

\* _print_hop with every answering hop taken for the destination.
PrintHopAnyAnswer(resp_ip, destination_ip) == resp_ip # "*"

\* _print_hop(hop_num, resp_ip, rtt, verbose, destination_ip): its result.
PrintHop(resp_ip, destination_ip) == resp_ip = destination_ip

TrIdle ==
    /\ trPc = "start"
    /\ destination = DstV4
    /\ protocol = "icmp"
    /\ max_hops = 0
    /\ probeTtl = 0
    /\ hop_num = 0
    /\ calls = << >>
    /\ sent = << >>
    /\ responses = << >>

TrInit ==
    /\ trPc = "start"
    /\ destination \in Destinations
    /\ protocol \in Protocols
    /\ max_hops \in 0..MaxHopsArg
    /\ probeTtl = 0
    /\ hop_num = 0
    /\ calls = << >>
    /\ sent = << >>
    /\ responses = << >>

\* traceroute up to the first test of the loop (lines 13-20).
TrStart ==
    /\ trPc = "start"
    /\ UNCHANGED << destination, protocol, max_hops, calls, sent, responses >>
    /\ UNCHANGED << srvVars, cacheVars, resVars, codecVars >>
    /\ IF IpVersion(destination) = 0
       THEN trPc' = "raised" /\ UNCHANGED << probeTtl, hop_num >>
       ELSE IF IpVersion(destination) # 4
       THEN trPc' = "done" /\ UNCHANGED << probeTtl, hop_num >>
       ELSE /\ probeTtl' = 1
            /\ hop_num' = 1
            /\ trPc' = IF 1 <= max_hops THEN "loop" ELSE "done"

\* One pass of the loop (lines 21-36) and the test that follows it; r is what
\* sr1 gives when it is called.
TrProbe(r) ==
    /\ trPc = "loop"
    /\ UNCHANGED << destination, protocol, max_hops >>
    /\ UNCHANGED << srvVars, cacheVars, resVars, codecVars >>
    /\ LET response == IF BuildsPacket(protocol) THEN r ELSE NoAnswer
       IN  /\ calls' = Append(calls, probeTtl)
           /\ sent' = IF BuildsPacket(protocol) THEN Append(sent, probeTtl) ELSE sent
           /\ responses' = Append(responses, response)
           /\ IF response # NoAnswer
                 /\ PrintHop(GetIpFromResponse(response), destination)
              THEN trPc' = "done" /\ UNCHANGED << probeTtl, hop_num >>
              ELSE /\ probeTtl' = probeTtl + 1
                   /\ hop_num' = hop_num + 1
                   /\ trPc' = IF probeTtl' <= max_hops THEN "loop" ELSE "done"

TracerouteNext ==
    \/ TrStart
    \/ \E r \in Sr1Results(destination) : TrProbe(r)

\* ========================================================= specifications
vars == << srvVars, cacheVars, resVars, codecVars, trVars >>

Init == SrvInit /\ CacheInit /\ ResInit /\ CodecIdle /\ TrIdle

\* The iterative server.
Next == SrvNext
Spec == Init /\ [][Next]_vars

\* The cache, called directly.
SpecCache == Init /\ [][CacheNext]_vars

\* The cache and its file, the process started again at any time.
SpecCacheFile == Init /\ [][CacheFileNext]_vars

\* The resolver.  DNSCache() starts from CACHE_FILE when an earlier run left
\* one (_load_cache): no file, or a file holding one entry that run stored.
LoadedCaches ==
    { NoEntries,
      [x \in { DomB } |-> [ips |-> << Ip2 >>, expire |-> 1]] }
CacheLoaded ==
    /\ saved \in { SaveCache(c) : c \in LoadedCaches }
    /\ cache = LoadCache(saved)
    /\ saves = FALSE
    /\ now = 0
    /\ ticks = 0
    /\ op = NoOp
    /\ ret = RetNone
InitResolver == SrvInit /\ CacheLoaded /\ ResInit /\ CodecIdle /\ TrIdle
SpecResolver == InitResolver /\ [][ResolverNext]_vars

\* The name codec, applied to a valid name.
InitCodec == SrvInit /\ CacheInit /\ ResInit /\ CodecInit /\ TrIdle
SpecCodec == InitCodec /\ [][CodecNext]_vars

\* One call of traceroute.
InitTraceroute == SrvInit /\ CacheInit /\ ResInit /\ CodecIdle /\ TrInit
SpecTraceroute == InitTraceroute /\ [][TracerouteNext]_vars

\* ------------------------------------------- claims on the iterative server
\* The handling of the current request went through _iterative_resolve and
\* has ended.
ResolutionEnded == Len(hops) > 0 /\ srvPc # "recv"

\* The reply received last, and the name-error response for the request.
LastReply == replies[Len(replies)]
ErrorResponseForRequest == CreateErrorResponse(Header(data)[0])

\* C1: every datagram whose handling went through a resolution gets exactly
\* one response; when the resolution produced no answer the response is the
\* name-error response and the loop waits for the next datagram.
C1_EveryResolutionAnswered ==
    ResolutionEnded =>
        /\ nsent = received
        /\ srvPc = "recvfrom"
        /\ outcome # "Answered" =>
               lastSent = [addr |-> addr, data |-> ErrorResponseForRequest]

\* C2: a hop whose server sends no reply within the timeout ends the
\* resolution in the Failed outcome, with no further datagram sent to a name
\* server and no exception leaving the resolution.
C2_TimeoutEndsFailed ==
    [][HopTimeout => (outcome' = "Failed" /\ exc' = "none" /\ hops' = hops)]_vars

\* C3: a resolution in which every queried server replied in time with a
\* message the engine could parse, referral loops included, ends Answered or
\* Failed.
C3_WalkEndsAnsweredOrFailed ==
    (ResolutionEnded /\ exc \notin {"socket.timeout", "struct.error", "IndexError", "OSError"})
        => outcome \in {"Answered", "Failed"}

\* C4: for a reply with answer count 0, the Navigator is consulted exactly when
\* arcount (header word 5) is > 0; with a next server found that server is
\* queried next, with none found or with arcount = 0 the result is Failed.
C4_DelegationOnArcount ==
    (Len(replies) > 0 /\ HeaderOk(LastReply) /\ Header(LastReply)[3] = 0) =>
        LET arcount == Header(LastReply)[5]
            nav     == FindNextServerName(LastReply)
        IN  /\ navAsked[Len(replies)] = (arcount > 0)
            /\ (arcount > 0 /\ nav.kind = "addr") =>
                   \/ /\ srvPc = "recv"
                      /\ Len(hops) = Len(replies) + 1
                      /\ server = nav.ip
                   \/ exc = "RecursionError"
            /\ (arcount = 0 \/ nav.kind = "none") =>
                   (srvPc = "recvfrom" /\ outcome = "Failed")

\* C5: the first reply with answer count > 0 is the last reply of the
\* resolution: no server is queried after it, and the response sent to the
\* client is that reply, byte for byte, whatever its RCODE.
C5_FirstAnswerEndsResolution ==
    \A i \in 1..Len(replies) :
        (HeaderOk(replies[i]) /\ Header(replies[i])[3] > 0) =>
            /\ i = Len(replies)
            /\ Len(hops) = i
            /\ srvPc = "recvfrom"
            /\ outcome = "Answered"
            /\ nsent = received
            /\ lastSent = [addr |-> addr, data |-> replies[i]]

\* An answer with RCODE 2 arrived from the third server queried and was sent on.
C5_Witness ==
    /\ outcome = "Answered"
    /\ Len(hops) = 3
    /\ LastReply = ReplyAnswerServFail
    /\ lastSent.data = ReplyAnswerServFail

\* C6: every datagram sent to a name server for a request is the client's
\* datagram, unchanged.
C6_QueryForwardedUnchanged ==
    \A i \in 1..Len(hops) : hops[i].query = data

\* Three servers were queried for one request (two referrals followed).
C6_Witness ==
    /\ Len(hops) = 3
    /\ Len(replies) = 2
    /\ hops[3].server # hops[2].server
    /\ hops[3].query = QueryA(513)

\* C7: root refers to Ns2, Ns2 refers to Ns3 (each through a type-A additional
\* record), Ns3 answers: the servers queried are root, Ns2, Ns3, once each, in
\* that order, and the response is Ns3's reply.
ChainReply(s) ==
    IF s = RootServer THEN ReplyGlueOnly(Ns2)
    ELSE IF s = Ns2 THEN ReplyGlueOnly(Ns3)
    ELSE ReplyAnswer
\* C7: when every queried server replied as in that chain, the servers queried
\* are root, Ns2, Ns3 and the client gets Ns3's reply.
C7_ThreeServerChain ==
    (/\ ResolutionEnded
     /\ Len(replies) = Len(hops)
     /\ \A i \in 1..Len(replies) : replies[i] = ChainReply(hops[i].server))
        => /\ [i \in 1..Len(hops) |-> hops[i].server] = << RootServer, Ns2, Ns3 >>
           /\ outcome = "Answered"
           /\ lastSent.data = ReplyAnswer

\* ------------------------------------------------------ claims on the cache
\* The entry of domain d is present and not expired at the current time.
Live(d) == d \in DOMAIN cache /\ now < cache[d].expire

\* C8: get_value returns the stored list exactly when an entry exists and
\* now < expiry, and then leaves the cache as it is; otherwise it reports a
\* miss and the entry, if any, is removed.  So a list a get returned was not
\* expired at the call, and after a miss the domain has no entry.
C8_GetValueStep ==
    \A d \in Domains :
        GetValue(d) =>
            IF Live(d)
            THEN ret' = RetList(cache[d].ips) /\ cache' = cache
            ELSE ret' = RetNone /\ cache' = DictDel(cache, d)
C8_GetValueResult ==
    op.name = "get_value" =>
        IF ret.kind = "list"
        THEN /\ op.domain \in DOMAIN cache
             /\ ret.ips = cache[op.domain].ips
             /\ op.at < cache[op.domain].expire
        ELSE ret = RetNone /\ op.domain \notin DOMAIN cache
\* C8: every get_value step returns the list iff the entry is live and evicts
\* an expired one, and what a get returned stays true of the cache.
C8_GetValueIffNotExpired == [][C8_GetValueStep]_vars /\ []C8_GetValueResult

\* A get at the very instant of expiry (ttl 1, one second later) evicted the
\* entry, while the other domain's entry stayed.
C8_Witness ==
    /\ op = [name |-> "get_value", domain |-> DomA, at |-> 1]
    /\ ret = RetNone
    /\ saves
    /\ DomA \notin DOMAIN cache
    /\ DomB \in DOMAIN cache

\* ---------------------------------------------------- claims on the resolver
PlainDomains == { d \in ResolveDomains : ~Contains(d, DotMultiplyDot) }
ResolveOf(d) == \E id \in TransactionIds : Resolve(d, id)

\* C9: resolve of a non-synthetic domain sends a packet upstream exactly when
\* the cache holds no non-expired entry for it.  Once a resolve obtained
\* addresses at time t, a resolve of that domain before t + 300 returns the
\* same list and sends nothing, and one at or after t + 300 sends a new query
\* for the domain.
C9_ResolveStep ==
    \A d \in PlainDomains :
        ResolveOf(d) =>
            /\ (nqueries' = nqueries + 1) <=> ~Live(d)
            /\ nqueries' \in { nqueries, nqueries + 1 }
            /\ d \in DOMAIN obtained =>
                   IF now < obtained[d].at + DefaultTtl
                   THEN nqueries' = nqueries /\ ret' = RetList(obtained[d].ips)
                   ELSE /\ nqueries' = nqueries + 1
                        /\ resPc' = "waiting"
                        /\ \E id \in TransactionIds : packet' = CreatePacket(id, d)
\* C9: every resolve step of a non-synthetic domain queries upstream iff the
\* cache holds no live entry, and serves obtained addresses for 300 s.
C9_QueryIffNoLiveEntry == [][C9_ResolveStep]_vars

\* Addresses obtained at time 0 were served from the cache at 299 s, and the
\* resolve made at 300 s sent the second packet.
C9_Witness ==
    /\ op = [name |-> "resolve", domain |-> DomA, at |-> DefaultTtl]
    /\ DomA \in DOMAIN obtained
    /\ obtained[DomA].at = 0
    /\ nqueries = 2
    /\ resPc = "waiting"

\* C10 as claimed: resolve changes the cache only when the upstream reply
\* yielded a non-empty list, which it stores under the queried domain with
\* expiry now + 300.
C10_StoreStep ==
    /\ resPc = "waiting"
    /\ ret'.kind = "list"
    /\ Len(ret'.ips) > 0
    /\ ret' = ParseResponse(upResponse')
    /\ cache' = DictPut(cache, op.domain,
                        [ips |-> ret'.ips, expire |-> now + DefaultTtl])
\* C10 as claimed: every change of the cache is the store of a non-empty list
\* obtained from upstream.
C10_WritesOnlyOnAnswer == [][cache' # cache => C10_StoreStep]_vars

\* C10 as amended: besides that store, the only change resolve makes to the
\* cache is the removal of the queried domain's own expired entry by its
\* initial lookup; a resolve that ends with no result changes nothing else.
C10_EvictStep ==
    /\ resPc = "idle"
    /\ op'.name = "resolve"
    /\ op'.domain \in DOMAIN cache
    /\ now >= cache[op'.domain].expire
    /\ cache' = DictDel(cache, op'.domain)
C10_ResolveEnds == resPc = "waiting" /\ resPc' # "waiting"
C10_ResolveStep ==
    /\ cache' # cache => (C10_StoreStep \/ C10_EvictStep)
    /\ (C10_ResolveEnds /\ ParseResponse(upResponse').kind = "list") => C10_StoreStep
    /\ (C10_ResolveEnds /\ ret'.kind # "list") => cache' = cache
\* C10 as amended: every change of the cache is that store or the eviction of
\* the queried domain's expired entry; a resolve that got a list stores it, one
\* that ends without a list stores nothing.
C10_WritesOnAnswerOrEviction == [][C10_ResolveStep]_vars

\* A list from a reply whose record TTL is 1 s was stored at 299 s with expiry
\* 599 s, after an earlier entry of the other domain had been evicted.
C10_Witness ==
    /\ resPc = "idle"
    /\ upResponse = [kind |-> "bytes", data |-> UpAnswer]
    /\ ret = RetList(<< Ip1 >>)
    /\ now = DefaultTtl - 1
    /\ op.domain = DomA
    /\ cache[DomA] = [ips |-> << Ip1 >>, expire |-> now + DefaultTtl]

\* The domains resolve treats as synthetic.
SyntheticDomains == { d \in ResolveDomains : Contains(d, DotMultiplyDot) }

\* The product of the labels made of decimal digits only, modulo 256.
RECURSIVE DecimalProduct(_)
DecimalProduct(parts) ==
    IF Len(parts) = 0 THEN 1
    ELSE (IF IsDecimal(Head(parts)) THEN IntOf(Head(parts)) ELSE 1)
         * DecimalProduct(Tail(parts))
ProductAddress(d) == << 127, 0, 0, DecimalProduct(Split(d)) % 256 >>

\* resolve of a synthetic domain leaves the cache, its file and the network
\* alone.
C11_NoCacheNoNetwork ==
    /\ cache' = cache
    /\ saved' = saved
    /\ ~saves'
    /\ nqueries' = nqueries
    /\ packet' = packet
    /\ resPc' = resPc

\* C11: resolve of every domain holding ".multiply." returns the one address
\* 127.0.0.x, x the product of the all-digit labels modulo 256, and touches
\* neither the cache nor the network.
C11_MultiplyProduct ==
    [][\A d \in SyntheticDomains :
          ResolveOf(d) => (ret' = RetList(<< ProductAddress(d) >>)
                           /\ C11_NoCacheNoNetwork)]_vars

\* ---------------------------------------------------------------- C12
\* The step in which resolve ends after send_query timed out: it returns None
\* and no exception leaves it.
C12_TimeoutReturnsNone ==
    /\ upResponse' = NoResponse
    /\ ret' = RetNone
    /\ resPc' = "idle"
    /\ cache' = cache
    /\ saved' = saved

\* C12: after a timeout of the upstream resolver resolve returns None, no
\* exception leaves it, and the call has not modified the cache.
C12_TimeoutLeavesCache ==
    [][UpstreamTimeout => (C12_TimeoutReturnsNone /\ ~saves')]_vars

\* C12 as amended: the call has modified the cache only if its lookup removed
\* the expired entry of the queried domain before the packet was sent.
C12_ResolveSendsStep ==
    \A d \in PlainDomains :
        (ResolveOf(d) /\ resPc' = "waiting") =>
            IF d \in DOMAIN cache
            THEN cache[d].expire <= now /\ cache' = DictDel(cache, d) /\ saves'
            ELSE cache' = cache /\ ~saves'
C12_TimeoutStep ==
    UpstreamTimeout =>
        /\ C12_TimeoutReturnsNone
        /\ saves' => op.domain \notin DOMAIN cache'
        /\ \A d \in DOMAIN cache' : d # op.domain => cache'[d] = cache[d]
C12_TimeoutEvictsAtMost ==
    [][C12_ResolveSendsStep /\ C12_TimeoutStep]_vars

\* resolve("b") ended on a timeout with None; its lookup had removed the
\* expired entry of "b" loaded from the cache file.
C12_Witness ==
    /\ op.name = "resolve"
    /\ op.domain = DomB
    /\ resPc = "idle"
    /\ upResponse = NoResponse
    /\ ret = RetNone
    /\ saves
    /\ cache = NoEntries
    /\ saved = NoEntries
    /\ nqueries = 1

\* ---------------------------------------------------------------- C13
\* C13: on every reply of at least 12 bytes it is called on, the Navigator
\* returns an address or None; it raises on none.
C13_NavigatorNeverRaises ==
    \A i \in 1..Len(replies) :
        (navAsked[i] /\ Len(replies[i]) >= 12) =>
            FindNextServerName(replies[i]).kind \in { "addr", "none" }

\* ---------------------------------------------------------------- C14
\* C14: a request or a reply shorter than 12 bytes fails that query only: no
\* exception leaves run_server because of it.
C14_ShortHeaderHandled ==
    /\ (received > 0 /\ Len(data) < 12) => srvPc # "crashed"
    /\ (Len(replies) > 0 /\ Len(LastReply) < 12) =>
           /\ srvPc # "crashed"
           /\ outcome = "Failed"

\* ---------------------------------------------------------------- C15
\* C15: while the resolution of one request waits for a name server, run_server
\* can receive the next datagram.
C15_SecondQueryReceived ==
    (srvPc = "recv" /\ received < MaxRequests) =>
        ENABLED (\E d \in ClientQueries, a \in Clients : RecvRequest(d, a))

\* ---------------------------------------------------------------- C16
\* C16: decoding what the encoder made of a valid name, followed or not by
\* the type and class bytes, returns the name.
C16_RoundTrip ==
    codecPc = "decoded" =>
        decoded = [kind |-> "ok", value |-> name, exc |-> "none"]

\* ---------------------------------------------------------------- C17
\* The layout of a message as RFC 1035 gives it.  The offset after the name at
\* off: literal labels up to the zero label, or up to a 2-byte pointer; -1 when
\* the name runs off the buffer.
RECURSIVE RefNameEnd(_, _)
RefNameEnd(buf, off) ==
    IF off >= Len(buf) THEN -1
    ELSE IF Byte(buf, off) = 0 THEN off + 1
    ELSE IF Byte(buf, off) >= 192
    THEN (IF off + 2 <= Len(buf) THEN off + 2 ELSE -1)
    ELSE RefNameEnd(buf, off + 1 + Byte(buf, off))

\* The offset after n questions starting at off, or -1.
RECURSIVE RefSkipQuestions(_, _, _)
RefSkipQuestions(buf, off, n) ==
    IF n = 0 \/ off = -1 THEN off
    ELSE LET e == RefNameEnd(buf, off)
         IN  IF e = -1 \/ e + 4 > Len(buf) THEN -1
             ELSE RefSkipQuestions(buf, e + 4, n - 1)

\* The n records starting at off, as far as the buffer holds them whole:
\* [nameAt, type, rdAt, rdlen].
RECURSIVE RefRecords(_, _, _)
RefRecords(buf, off, n) ==
    IF n = 0 \/ off = -1 THEN << >>
    ELSE LET e == RefNameEnd(buf, off)
         IN  IF e = -1 \/ e + 10 > Len(buf) THEN << >>
             ELSE LET rdlen == UnpackH(Slice(buf, e + 8, e + 10))
                  IN  IF e + 10 + rdlen > Len(buf) THEN << >>
                      ELSE << [nameAt |-> off,
                               type |-> UnpackH(Slice(buf, e, e + 2)),
                               rdAt |-> e + 10,
                               rdlen |-> rdlen] >>
                           \o RefRecords(buf, e + 10 + rdlen, n - 1)

\* All records of a message with a whole header: answer, authority,
\* additional.
RefAllRecords(buf) ==
    RefRecords(buf, RefSkipQuestions(buf, 12, Header(buf)[2]),
               Header(buf)[3] + Header(buf)[4] + Header(buf)[5])

\* Whether the pointer chain of the name at off comes back to an offset it
\* has been at.
RECURSIVE PointerChainLoops(_, _, _)
PointerChainLoops(buf, off, visited) ==
    IF off \in visited THEN TRUE
    ELSE IF off + 1 >= Len(buf) THEN FALSE
    ELSE IF Byte(buf, off) = 0 THEN FALSE
    ELSE IF Byte(buf, off) >= 192
    THEN PointerChainLoops(buf, (Byte(buf, off) - 192) * 256 + Byte(buf, off + 1),
                           visited \cup { off })
    ELSE PointerChainLoops(buf, off + 1 + Byte(buf, off), visited \cup { off })

HasPointerLoop(buf) ==
    \E k \in 1..Len(RefAllRecords(buf)) :
        PointerChainLoops(buf, RefAllRecords(buf)[k].nameAt, {})

\* C17: on a reply holding a record name whose pointer chain loops, the
\* Navigator fails with CompressionLoop; on no reply does it index outside
\* the buffer.
C17_CompressionSafe ==
    \A i \in 1..Len(replies) :
        (navAsked[i] /\ HeaderOk(replies[i])) =>
            /\ HasPointerLoop(replies[i]) =>
                   FindNextServerName(replies[i]).exc = "CompressionLoop"
            /\ FindNextServerName(replies[i]).exc # "IndexError"

\* ---------------------------------------------------------------- C18
\* The question "error.local", type A, class IN, as bytes.
PlaceholderQuestion ==
    << 5, 101, 114, 114, 111, 114, 5, 108, 111, 99, 97, 108, 0, 0, 1, 0, 1 >>
\* The domain the request being handled asks for.
RequestDomain == DecodeDomainName(Slice(data, 12, Len(data))).value

\* C18: the error response carries the request's id, QR set, RCODE 3, one
\* question (the placeholder) and no record; the multiply response carries the
\* request's id, QR set, AA unset, RCODE 0, one question and one record, of type
\* A, whose 4 data bytes are the computed address and end the message.
C18_SynthesizedResponses ==
    LET r == lastSent.data
        h == Header(r)
    IN  /\ outcome = "Failed" =>
              /\ h[0] = Header(data)[0]
              /\ h[1] >= 32768
              /\ h[1] % 16 = 3
              /\ << h[2], h[3], h[4], h[5] >> = << 1, 0, 0, 0 >>
              /\ Slice(r, 12, Len(r)) = PlaceholderQuestion
        /\ outcome = "Multiply" =>
              /\ h[0] = Header(data)[0]
              /\ h[1] >= 32768
              /\ (h[1] \div 1024) % 2 = 0
              /\ h[1] % 16 = 0
              /\ << h[2], h[3], h[4], h[5] >> = << 1, 1, 0, 0 >>
              /\ Len(RefAllRecords(r)) = 1
              /\ LET a == RefAllRecords(r)[1]
                 IN  /\ a.type = 1
                     /\ a.rdlen = 4
                     /\ a.rdAt + 4 = Len(r)
                     /\ Slice(r, a.rdAt, a.rdAt + 4) = ProductAddress(RequestDomain)

\* The second request, "300.3.multiply.x" with id 515, was answered with
\* 127.0.0.132 under id 515, after the first request had got its response.
C18_Witness ==
    /\ outcome = "Multiply"
    /\ received = 2
    /\ nsent = 2
    /\ Len(replies) = 0
    /\ Header(data)[0] = 515
    /\ Header(lastSent.data)[0] = 515
    /\ Slice(lastSent.data, Len(lastSent.data) - 4, Len(lastSent.data))
           = << 127, 0, 0, 132 >>

\* ---------------------------------------------------------------- C19
\* C19: after add_value(domain, addresses, ttl) the entry of domain is the
\* addresses given with expiry now + ttl, whatever entry it had before, and
\* the entries of the other domains are the ones before the call.
C19_AddValueStep ==
    \A d \in Domains, ips \in IpLists, ttl \in TtlValues :
        AddValue(d, ips, ttl) =>
            /\ DOMAIN cache' = DOMAIN cache \cup { d }
            /\ cache'[d].ips = ips
            /\ cache'[d].expire = now + ttl
            /\ \A x \in DOMAIN cache : x # d => cache'[x] = cache[x]
C19_AddValueReplaces == [][C19_AddValueStep]_vars

\* add_value("a", [Ip1, Ip2], 1) was called at 300 s; "b" keeps the entry
\* stored for it at 0 s with ttl 0.
C19_Witness ==
    /\ op = [name |-> "add_value", domain |-> DomA, at |-> DefaultTtl]
    /\ now = DefaultTtl
    /\ DOMAIN cache = { DomA, DomB }
    /\ cache[DomA] = [ips |-> << Ip1, Ip2 >>, expire |-> DefaultTtl + 1]
    /\ cache[DomB] = [ips |-> << Ip1 >>, expire |-> 0]

\* ---------------------------------------------------------------- C20
\* A well-formed referral: no answer, an additional section, every record the
\* header declares whole in the buffer, no pointer loop.
WellFormedReferral(buf) ==
    /\ HeaderOk(buf)
    /\ Header(buf)[3] = 0
    /\ Header(buf)[5] > 0
    /\ Len(RefAllRecords(buf)) = Header(buf)[4] + Header(buf)[5]
    /\ ~HasPointerLoop(buf)

\* The data of the first type-A record of the additional section, << >> when
\* the section has none.
RefFirstGlue(buf) ==
    LET recs == RefAllRecords(buf)
        glue == { k \in (Header(buf)[4] + 1)..Len(recs) :
                      recs[k].type = 1 /\ recs[k].rdlen = 4 }
    IN  IF glue = {} THEN << >>
        ELSE LET k == CHOOSE m \in glue : \A n \in glue : m <= n
             IN  Slice(buf, recs[k].rdAt, recs[k].rdAt + 4)

\* C20: on a well-formed referral the Navigator returns the data of the first
\* type-A record of the additional section, and None when that section has
\* no such record.
C20_FirstGlueOfAdditional ==
    \A i \in 1..Len(replies) :
        (navAsked[i] /\ WellFormedReferral(replies[i])) =>
            FindNextServerName(replies[i]) =
                IF RefFirstGlue(replies[i]) = << >>
                THEN [kind |-> "none", ip |-> NoIp, exc |-> "none"]
                ELSE [kind |-> "addr", ip |-> RefFirstGlue(replies[i]),
                      exc |-> "none"]

\* ---------------------------------------------------------------- C21
\* C21: a request being resolved holds exactly one per-hop socket while it
\* waits for a reply, the one of the current hop, and none at any other time:
\* each hop's socket is closed when the reply arrives, when recv times out and
\* when the reply fails to parse, before the next hop opens its own.
C21_OneHopSocket ==
    /\ hopSockets \in { 0, 1 }
    /\ (hopSockets = 1) <=> (srvPc = "recv")

\* The second hop of a resolution timed out: no socket is left open.
C21_Witness ==
    /\ Len(hops) = 2
    /\ Len(replies) = 1
    /\ srvPc = "crashed"
    /\ exc = "socket.timeout"
    /\ hopSockets = 0

\* ---------------------------------------------------------------- C22
\* C22: after every call the file holds the in-memory mapping; add_value and
\* a get_value that removed an expired entry have saved it, a get_value that
\* hit or found no entry has saved nothing; and a DNSCache constructed then
\* holds the mapping the earlier one held.
C22_Step ==
    /\ saved' = SaveCache(cache')
    /\ (\E d \in Domains, ips \in StoredLists, ttl \in StoredTtls : AddValue(d, ips, ttl))
           => saves'
    /\ \A d \in Domains :
           GetValue(d) =>
               IF d \in DOMAIN cache /\ cache[d].expire <= now
               THEN saves' /\ d \notin DOMAIN cache'
               ELSE ~saves' /\ saved' = saved /\ cache' = cache
    /\ Restart => (cache' = cache /\ saved' = saved)
C22_SavedFollowsCache == [][C22_Step]_vars

\* A DNSCache was constructed at 300 s from the file an add_value and an
\* eviction had written: it holds the entry of "a" and none of "b".
C22_Witness ==
    /\ op = [name |-> "load", domain |-> << >>, at |-> DefaultTtl]
    /\ now = DefaultTtl
    /\ DOMAIN cache = { DomA }
    /\ cache[DomA] = [ips |-> << Ip1, Ip2 >>, expire |-> DefaultTtl + 1]
    /\ saved = [x \in { DomA } |-> << << Ip1, Ip2 >>, DefaultTtl + 1 >>]

\* ---------------------------------------------------------------- C23
\* C23: the packets sent carry the TTLs 1, 2, 3, ... in this order, one each
\* and at most max_hops of them; none is sent for a destination that is no IPv4
\* address; an answer whose source is the destination is the last thing the
\* walk receives; and the walk of an IPv4 destination ends only after such an
\* answer or after max_hops calls of send_packet, whatever the other calls
\* returned.
C23_ProbesInOrder ==
    /\ Len(sent) <= max_hops
    /\ \A i \in 1..Len(sent) : sent[i] = i
    /\ \A i \in 1..Len(calls) : calls[i] = i
    /\ IpVersion(destination) # 4 => (sent = << >> /\ calls = << >>)
    /\ \A i \in 1..Len(responses) :
           responses[i] = AnswerFrom(destination) =>
               (i = Len(responses) /\ trPc = "done")
    /\ (trPc = "done" /\ IpVersion(destination) = 4) =>
           \/ Len(calls) = max_hops
           \/ (Len(responses) > 0
               /\ responses[Len(responses)] = AnswerFrom(destination))

\* With max_hops 3 the walk ended after two packets: the first got no answer,
\* the second an answer from the destination.
C23_Witness ==
    /\ trPc = "done"
    /\ max_hops = 3
    /\ destination = DstV4
    /\ sent = << 1, 2 >>
    /\ responses = << NoAnswer, AnswerFrom(DstV4) >>

====
